---- MODULE Spec2Model ----
(***************************************************************************)
(* Mining orchestration of bethenitro/minetest1.                           *)
(*                                                                         *)
(* The repository holds two variants of the same subsystem:                *)
(*   server.py  PythonMoneroMiner: in-process worker threads that hash,    *)
(*              submit shares over one shared pool socket and pace         *)
(*              themselves;                                                *)
(*   main.py    MoneroMiningManager: one external xmrig process plus a     *)
(*              throttle thread that suspends/resumes it.                  *)
(* The variable `program` says which variant is deployed; the lifecycle    *)
(* API (start_mining, stop_mining, get_status) is served by one event loop *)
(* (async def routes calling blocking methods, uvicorn workers=1), so API  *)
(* calls are serialised with each other and interleave only with the       *)
(* background threads.                                                     *)
(*                                                                         *)
(* Optional values (Python None) are sequences of length 0 or 1.           *)
(* Worker threads differ only in the thread_id they print, so the Thread   *)
(* objects are kept as a bag of thread states; the list mining_threads is  *)
(* the sub-bag of the objects it references.                               *)
(***************************************************************************)
EXTENDS Integers, Sequences, FiniteSets, Bags, TLC

\* ---- bounds of the model ----
MaxCores == 2        \* psutil.cpu_count() of the modelled host
MaxThreads == 2      \* Thread objects alive or referenced at one time
MaxShares == 2       \* qualifying hashes found while counters are low

\* ---- program constants ----
InitialDifficulty == 1000
SubmitRequestId == 3
TargetLow == 50       \* random.uniform(50, 90)
TargetHigh == 90
ServerPause == 10000  \* time.sleep(0.01), in microseconds
PerCoreHashrate == 1000

Nothing == <<>>
Some(x) == <<x>>

VARIABLES
    program,           \* "server.py" or "main.py"
    \* --- PythonMoneroMiner fields (server.py) ---
    config,            \* Nothing or Some([cpu_cores_num |-> n])
    is_mining,
    start_time,        \* Nothing or Some("now")
    hashrate,
    accepted_shares,
    rejected_shares,
    pool_connection,   \* "None", "unconnected" (socket object, connect failed), "connected"
    job_data,          \* Nothing or Some("job")
    \* --- threads created by threading.Thread(target=mine_worker_thread) ---
    threads,           \* bag of [pc, reg, tracked]: the Thread objects that exist;
                       \* tracked: the object is an element of self.mining_threads
    \* --- MoneroMiningManager fields (main.py); config and start_time as above ---
    process,           \* "None", or the state of the Popen object's process:
                       \* "alive" (poll() is None) or "exited"
    throttle_active,
    throttlers,        \* number of live threads running cpu_throttle_worker
    \* --- the API caller (event loop) ---
    apiPc,             \* "idle" or "stop_join" (blocked in the join loop of stop_mining)
    lastPath,          \* history: the branch the last API call took
    lastResult,        \* its return value: "none", "True", "False", or a status string
    \* --- the difficulty check of one worker iteration (server.py lines 191-196) ---
    current_difficulty,  \* the field of line 54; no statement assigns it again
    hash_result,       \* the digest under test, a sequence of bytes (<<>>: none)
    decision,          \* "none", or what line 193 decided: "submit" or "skip"
    \* --- one pass of the CPU pacing (server.py lines 199-202, main.py lines 159-167) ---
    target_usage,      \* Nothing or Some(target drawn), in percent
    current_usage,     \* Nothing or Some(psutil.cpu_percent sample), in percent
    pause              \* Nothing or Some(microseconds the miner was held back in the pass)

\* what no step of the running service changes
paceVars == <<target_usage, current_usage, pause>>
fixedVars == <<program, current_difficulty, hash_result, decision, paceVars>>

serverVars == <<config, is_mining, start_time, hashrate,
                accepted_shares, rejected_shares, pool_connection, job_data, threads>>
apiVars == <<apiPc, lastPath, lastResult>>
mgrVars == <<process, throttle_active, throttlers>>
vars == <<fixedVars, serverVars, mgrVars, apiVars>>

\* class MiningConfig: the fields the orchestration reads
Configs == [cpu_cores_num : 1..MaxCores]

\* ---------------------------------------------------------------------
\* server.py: threads
\* ---------------------------------------------------------------------

\* a Thread object just started by start_mining and appended to mining_threads
NewThread == [pc |-> "init", reg |-> 0, tracked |-> TRUE, thread_hashrate |-> 0]

\* threading.Thread.is_alive(): started and its target has not returned
is_alive(w) == w.pc # "dead"

\* the number of Thread objects whose state is in S
Count(S) == BagCardinality([w \in S \cap DOMAIN threads |-> threads[w]])

InMiningThreads(w) == w.tracked

\* len(self.mining_threads)
mining_threads_len == Count({w \in DOMAIN threads : InMiningThreads(w)})

AliveTrackedThread(w) == w.tracked /\ is_alive(w)

\* len([t for t in self.mining_threads if t.is_alive()]), line 303
AliveTracked == Count({w \in DOMAIN threads : AliveTrackedThread(w)})

\* one thread moves from state w to state w2
Moved(w, w2) == (threads (-) SetToBag({w})) (+) SetToBag({w2})

SetPc(w, p) == Moved(w, [w EXCEPT !.pc = p, !.reg = 0])

\* thread w has returned from mine_worker_thread; an ended thread that
\* mining_threads does not reference is garbage
Ended(w) ==
    IF w.tracked
    THEN Moved(w, [w EXCEPT !.pc = "dead", !.reg = 0, !.thread_hashrate = 0])
    ELSE threads (-) SetToBag({w})

SetMax(S) == CHOOSE x \in S : \A y \in S : y <= x

NotLoaded(w) == w.pc \in {"submit", "recv", "rd_acc", "rd_rej"}

\* The highest value a counter can reach once every submit_share under way has
\* finished: the highest counter or pending store, plus one for each call that
\* has not loaded its counter yet
SharePotential ==
    SetMax({accepted_shares, rejected_shares}
           \cup {w.reg + 1 : w \in {u \in DOMAIN threads : u.pc \in {"wr_acc", "wr_rej"}}})
    + Count({w \in DOMAIN threads : NotLoaded(w)})

\* ---------------------------------------------------------------------
\* server.py: connect_to_pool
\* ---------------------------------------------------------------------

\* What the pool and the network do to the login exchange of connect_to_pool:
\*   bad_url     pool_url does not split into host:port (raises before the socket exists)
\*   refused     socket created, connect() raises (refused or timed out)
\*   recv_error  connected, send/recv raises or the response is not JSON
\*   no_result   response without "result", or with a falsy one
\*   no_job      truthy "result" that holds no "job" (the lookup raises)
\*   ok          truthy "result" with a "job"
LoginOutcomes == {"bad_url", "refused", "recv_error", "no_result", "no_job", "ok"}

\* line 87 without its second test: any response that holds "result" passes
connect_to_pool_any_result(login) == login \in {"ok", "no_result"}

\* the return value of connect_to_pool
connect_to_pool(login) == login = "ok"

\* self.pool_connection after connect_to_pool: the socket object assigned at
\* line 65 stays in the field on every failure after that line
ConnectedSocket(login) ==
    CASE login = "bad_url" -> pool_connection
      [] login = "refused" -> "unconnected"
      [] OTHER -> "connected"

\* self.job_data after connect_to_pool
JobAfterLogin(login) == IF login = "ok" THEN Some("job") ELSE job_data

\* ---------------------------------------------------------------------
\* server.py: mine_worker_thread and submit_share, one action per step
\* ---------------------------------------------------------------------

workerFrame == <<fixedVars, mgrVars, config, is_mining, start_time, hashrate,
                 pool_connection, job_data, apiVars>>

\* line 167: the per-thread RandomX VM; a failure here is caught by the outer
\* try and ends the thread (lines 208-211)
WorkerInit(w, ok) ==
    /\ program = "server.py"
    /\ w.pc = "init"
    /\ threads' = IF ok THEN SetPc(w, "loop") ELSE Ended(w)
    /\ UNCHANGED <<workerFrame, accepted_shares, rejected_shares>>

\* line 172 with the flag cleared: the loop ends, the thread returns (line 211)
WorkerExit(w) ==
    /\ program = "server.py"
    /\ w.pc = "loop"
    /\ ~is_mining
    /\ threads' = Ended(w)
    /\ UNCHANGED <<workerFrame, accepted_shares, rejected_shares>>

\* What one pass of lines 175-193 comes to: the digest is below the target
\* (share), it is not (no_share), or the pass raises (raise)
IterationOutcomes == {"share", "no_share", "raise"}

\* line 172 with the flag set, then lines 175-193: nonce, hash, hashrate
\* print, difficulty check.  Without a share the pass goes on to the pacing
\* of lines 200-202; a pass that raises goes to the handler of lines 204-206
\* (sleep 1); both are back at the loop test afterwards.
WorkerIteration(w, out) ==
    /\ program = "server.py"
    /\ w.pc = "loop"
    /\ is_mining
    /\ out = "share" => SharePotential < MaxShares
    /\ threads' = SetPc(w, IF out = "share" THEN "submit" ELSE "loop")
    /\ UNCHANGED <<workerFrame, accepted_shares, rejected_shares>>

\* thread_hashrate of line 185, hash_count / elapsed in H/s, as it may come
\* out on a slow and on a fast host
SampledRates == {500, 1000}

\* The same pass when 10 s have gone by since the thread's last sample: lines
\* 184-189 compute thread_hashrate = r and print it.  The value stays in the
\* thread's frame; no field of the miner receives it.
WorkerIterationSampled(w, out, r) ==
    /\ program = "server.py"
    /\ w.pc = "loop"
    /\ is_mining
    /\ out = "share" => SharePotential < MaxShares
    /\ threads' = Moved(w, [w EXCEPT !.pc = IF out = "share" THEN "submit" ELSE "loop",
                                     !.reg = 0,
                                     !.thread_hashrate = r])
    /\ UNCHANGED <<workerFrame, accepted_shares, rejected_shares>>

\* submit_share lines 129-130: no connection, return False, then the pacing
WorkerSubmitNoConnection(w) ==
    /\ program = "server.py"
    /\ w.pc = "submit"
    /\ pool_connection = "None"
    /\ threads' = SetPc(w, "loop")
    /\ UNCHANGED <<workerFrame, accepted_shares, rejected_shares>>

\* submit_share lines 132-144: the request is sent.  send() raises on a socket
\* that never connected and may raise on a connected one.
WorkerSubmit(w, sent) ==
    /\ program = "server.py"
    /\ w.pc = "submit"
    /\ pool_connection # "None"
    /\ pool_connection = "unconnected" => ~sent
    /\ threads' = SetPc(w, IF sent THEN "recv" ELSE "rd_rej")
    /\ UNCHANGED <<workerFrame, accepted_shares, rejected_shares>>

\* What recv and the parse of lines 146-149 come to
Responses == {"OK", "rejected", "empty", "raise"}

\* recv on a socket that has no timeout: the call returns only when the pool
\* answers on a live connection
WorkerRecvNoTimeout(w, resp) ==
    /\ program = "server.py"
    /\ w.pc = "recv"
    /\ pool_connection = "connected"
    /\ threads' = SetPc(w, CASE resp = "OK" -> "rd_acc"
                             [] resp = "empty" -> "loop"
                             [] OTHER -> "rd_rej")
    /\ UNCHANGED <<workerFrame, accepted_shares, rejected_shares>>

\* submit_share lines 146-157: recv and the decision.  Every socket the miner
\* creates gets settimeout(10) (line 66), so the call returns or raises.  The field is read again,
\* so a connection dropped by stop_mining in between makes the call raise; an
\* empty response falls through to return False without counting.
WorkerRecv(w, resp) ==
    /\ program = "server.py"
    /\ w.pc = "recv"
    /\ pool_connection # "connected" => resp = "raise"
    /\ threads' = SetPc(w, CASE resp = "OK" -> "rd_acc"
                             [] resp = "empty" -> "loop"
                             [] OTHER -> "rd_rej")
    /\ UNCHANGED <<workerFrame, accepted_shares, rejected_shares>>

\* self.accepted_shares += 1 (line 150) is a load, an add and a store
WorkerReadAccepted(w) ==
    /\ program = "server.py"
    /\ w.pc = "rd_acc"
    /\ threads' = Moved(w, [w EXCEPT !.pc = "wr_acc", !.reg = accepted_shares])
    /\ UNCHANGED <<workerFrame, accepted_shares, rejected_shares>>

WorkerWriteAccepted(w) ==
    /\ program = "server.py"
    /\ w.pc = "wr_acc"
    /\ accepted_shares' = w.reg + 1
    /\ threads' = SetPc(w, "loop")
    /\ UNCHANGED <<workerFrame, rejected_shares>>

\* self.rejected_shares += 1 (lines 153 and 157)
WorkerReadRejected(w) ==
    /\ program = "server.py"
    /\ w.pc = "rd_rej"
    /\ threads' = Moved(w, [w EXCEPT !.pc = "wr_rej", !.reg = rejected_shares])
    /\ UNCHANGED <<workerFrame, accepted_shares, rejected_shares>>

WorkerWriteRejected(w) ==
    /\ program = "server.py"
    /\ w.pc = "wr_rej"
    /\ rejected_shares' = w.reg + 1
    /\ threads' = SetPc(w, "loop")
    /\ UNCHANGED <<workerFrame, accepted_shares>>

\* ---------------------------------------------------------------------
\* server.py: the difficulty check of lines 191-196
\* ---------------------------------------------------------------------

\* Python integers are unbounded.  The numbers of this check reach 2**32, so
\* they are kept as big-endian sequences of 16-bit limbs: <<hi, lo>> stands for
\* hi * 65536 + lo.
Limb == 2^16

\* 2**32
TwoTo32 == <<1, 0, 0>>

\* hash_result[:4]
FirstFour(digest) == SubSeq(digest, 1, 4)

\* int.from_bytes(b, 'big') of four bytes (line 192)
from_bytes(b) == <<b[1] * 256 + b[2], b[3] * 256 + b[4]>>

RECURSIVE LongDivision(_, _, _)
\* the quotient limbs of n // d by long division, rem carried in from the left
LongDivision(n, d, rem) ==
    IF n = <<>> THEN <<>>
    ELSE LET cur == rem * Limb + Head(n)
         IN <<cur \div d>> \o LongDivision(Tail(n), d, cur % d)

\* n // d (line 193)
FloorDiv(n, d) == LongDivision(n, d, 0)

\* n with leading zero limbs up to length k
Padded(n, k) == [i \in 1..(k - Len(n)) |-> 0] \o n

RECURSIVE LexLess(_, _)
LexLess(a, b) ==
    /\ a # <<>>
    /\ \/ Head(a) < Head(b)
       \/ Head(a) = Head(b) /\ LexLess(Tail(a), Tail(b))

\* a < b
Less(a, b) ==
    LET k == IF Len(a) > Len(b) THEN Len(a) ELSE Len(b)
    IN LexLess(Padded(a, k), Padded(b, k))

\* line 193 with <= in place of <
MeetsDifficultyInclusive(digest, difficulty) ==
    ~Less(FloorDiv(TwoTo32, difficulty), from_bytes(FirstFour(digest)))

\* lines 192-193: hash_int < (2**32 // self.current_difficulty)
MeetsDifficulty(digest, difficulty) ==
    Less(from_bytes(FirstFour(digest)), FloorDiv(TwoTo32, difficulty))

\* lines 192-196 for the digest of one iteration: the share is submitted or not
DifficultyCheck ==
    /\ program = "server.py"
    /\ hash_result # <<>>
    /\ decision = "none"
    /\ decision' = IF MeetsDifficulty(hash_result, current_difficulty)
                   THEN "submit" ELSE "skip"
    /\ UNCHANGED <<program, current_difficulty, hash_result, paceVars,
                   serverVars, mgrVars, apiVars>>

\* ---------------------------------------------------------------------
\* server.py: PythonMoneroMiner.start_mining, stop_mining, get_status
\* ---------------------------------------------------------------------

\* n copies of NewThread
NewThreads(n) == IF n = 0 THEN EmptyBag ELSE [w \in {NewThread} |-> n]

\* the Thread objects after the spawn loop of start_mining (lines 245-249)
\* started n threads and appended them to mining_threads
Spawned(n) == threads (+) NewThreads(n)

\* the guard placed after the assignment of line 232
StartAlreadyRunningStoresConfig(c) ==
    /\ program = "server.py"
    /\ apiPc = "idle"
    /\ is_mining
    /\ config' = Some(c)
    /\ lastPath' = "start:already_running"
    /\ lastResult' = "False"
    /\ UNCHANGED <<fixedVars, mgrVars, is_mining, start_time, hashrate, accepted_shares,
                   rejected_shares, pool_connection, job_data, threads, apiPc>>

\* start_mining lines 229-230: already mining
StartAlreadyRunning(c) ==
    /\ program = "server.py"
    /\ apiPc = "idle"
    /\ is_mining
    /\ lastPath' = "start:already_running"
    /\ lastResult' = "False"
    /\ UNCHANGED <<fixedVars, mgrVars, serverVars, apiPc>>

\* start_mining lines 229-236: the config is stored, the login fails
StartConnectFailed(c, login) ==
    /\ program = "server.py"
    /\ apiPc = "idle"
    /\ ~is_mining
    /\ ~connect_to_pool(login)
    /\ config' = Some(c)
    /\ pool_connection' = ConnectedSocket(login)
    /\ job_data' = JobAfterLogin(login)
    /\ lastPath' = "start:connect_failed"
    /\ lastResult' = "False"
    /\ UNCHANGED <<fixedVars, mgrVars, is_mining, start_time, hashrate,
                   accepted_shares, rejected_shares, threads, apiPc>>

\* start_mining lines 229-256 after a login that succeeds.  unstarted is the
\* number of threads the spawn loop had not started when Thread.start() raised
\* (unstarted = 0: the loop completed and the call returns True).
StartSpawn(c, login, unstarted) ==
    /\ program = "server.py"
    /\ apiPc = "idle"
    /\ ~is_mining
    /\ connect_to_pool(login)
    /\ unstarted \in 0..c.cpu_cores_num
    /\ BagCardinality(threads) + c.cpu_cores_num <= MaxThreads
    /\ config' = Some(c)
    /\ pool_connection' = ConnectedSocket(login)
    /\ job_data' = JobAfterLogin(login)
    /\ is_mining' = TRUE
    /\ start_time' = Some("now")
    /\ accepted_shares' = 0
    /\ rejected_shares' = 0
    /\ threads' = Spawned(c.cpu_cores_num - unstarted)
    /\ IF unstarted = 0
       THEN lastPath' = "start:started" /\ lastResult' = "True"
       ELSE lastPath' = "start:spawn_raised" /\ lastResult' = "False"
    /\ UNCHANGED <<fixedVars, mgrVars, hashrate, apiPc>>

\* the outcomes of the login exchange of a call: the exchange takes place only
\* in a call that gets past the guard of line 229
Logins == IF is_mining THEN {"ok"} ELSE LoginOutcomes

\* how many threads the spawn loop can leave unstarted: the loop is reached
\* only after a login that succeeds (line 235)
Unstarted(c, login) ==
    IF ~is_mining /\ connect_to_pool(login) THEN 0..c.cpu_cores_num ELSE {0}

\* start_mining(config), the whole call.  A call refused at line 230 reaches
\* neither the login nor the spawn loop: it is listed once, under their
\* successful outcomes.
start_mining(c, login, unstarted) ==
    \/ StartAlreadyRunning(c) /\ login = "ok" /\ unstarted = 0
    \/ StartConnectFailed(c, login) /\ unstarted = 0
    \/ StartSpawn(c, login, unstarted)

\* the Thread objects once mining_threads.clear() has dropped its references
\* (line 273): ended ones are garbage, running ones go on unreferenced
Cleared ==
    LET S == {w \in DOMAIN threads : is_alive(w)}
        U == {[w EXCEPT !.tracked = FALSE] : w \in S}
    IN [u \in U |-> (IF u \in S THEN threads[u] ELSE 0)
                    + (IF [u EXCEPT !.tracked = TRUE] \in S
                       THEN threads[[u EXCEPT !.tracked = TRUE]] ELSE 0)]

\* stop_mining when no thread of mining_threads is alive: no join blocks, the
\* call runs through (lines 261-277)
StopMiningNoWait ==
    /\ program = "server.py"
    /\ apiPc = "idle"
    /\ AliveTracked = 0
    /\ is_mining' = FALSE
    /\ pool_connection' = "None"
    /\ threads' = Cleared
    /\ start_time' = Nothing
    /\ lastPath' = IF is_mining THEN "stop:running" ELSE "stop:not_running"
    /\ lastResult' = "True"
    /\ UNCHANGED <<fixedVars, mgrVars, config, hashrate, accepted_shares, rejected_shares,
                   job_data, apiPc>>

\* stop_mining lines 261-271 when some thread of mining_threads is alive: the
\* flag is cleared, the socket closed and dropped, and the caller blocks in
\* the join loop
StopMiningBegin ==
    /\ program = "server.py"
    /\ apiPc = "idle"
    /\ AliveTracked > 0
    /\ is_mining' = FALSE
    /\ pool_connection' = "None"
    /\ apiPc' = "stop_join"
    /\ lastPath' = IF is_mining THEN "stop:running" ELSE "stop:not_running"
    /\ lastResult' = "pending"
    /\ UNCHANGED <<fixedVars, mgrVars, config, start_time, hashrate, accepted_shares,
                   rejected_shares, job_data, threads>>

\* lines 269-277: every join has returned because its thread ended
StopMiningJoined ==
    /\ program = "server.py"
    /\ apiPc = "stop_join"
    /\ AliveTracked = 0
    /\ threads' = Cleared
    /\ start_time' = Nothing
    /\ apiPc' = "idle"
    /\ lastResult' = "True"
    /\ UNCHANGED <<fixedVars, mgrVars, config, is_mining, hashrate, accepted_shares, rejected_shares,
                   pool_connection, job_data, lastPath>>

\* lines 269-277: the join loop is over and some join(timeout=5) returned
\* with its thread still running; the thread is left behind
StopMiningJoinTimeout ==
    /\ program = "server.py"
    /\ apiPc = "stop_join"
    /\ AliveTracked > 0
    /\ threads' = Cleared
    /\ start_time' = Nothing
    /\ apiPc' = "idle"
    /\ lastPath' = "stop:join_timeout"
    /\ lastResult' = "True"
    /\ UNCHANGED <<fixedVars, mgrVars, config, is_mining, hashrate, accepted_shares, rejected_shares,
                   pool_connection, job_data>>

\* random.uniform(0.8, 1.2) in tenths: both ends
Variation == {8, 12}

\* calculate_hashrate: self.hashrate afterwards.  uptime_positive is the test
\* of line 219, f the variation drawn at line 222.
calculate_hashrate(uptime_positive, f) ==
    IF is_mining /\ start_time # Nothing
    THEN IF uptime_positive
         THEN (config[1].cpu_cores_num * PerCoreHashrate * f) \div 10
         ELSE hashrate
    ELSE 0

\* the snapshot get_status returns when self.hashrate is h after line 299
MiningStatus(h) ==
    IF ~is_mining
    THEN [status |-> "stopped", hashrate |-> 0, threads_active |-> 0,
          accepted_shares |-> 0, rejected_shares |-> 0, difficulty |-> 0]
    ELSE [status |-> "running", hashrate |-> h,
          threads_active |-> AliveTracked,
          accepted_shares |-> accepted_shares, rejected_shares |-> rejected_shares,
          difficulty |-> current_difficulty]

\* get_status while not mining (lines 285-295): the fixed stopped snapshot
StatusStopped ==
    /\ program = "server.py"
    /\ apiPc = "idle"
    /\ ~is_mining
    /\ lastPath' = "status"
    /\ lastResult' = MiningStatus(hashrate).status
    /\ UNCHANGED <<fixedVars, mgrVars, serverVars, apiPc>>

\* get_status while mining (lines 297-314)
StatusRunning(uptime_positive, f) ==
    /\ program = "server.py"
    /\ apiPc = "idle"
    /\ is_mining
    /\ hashrate' = calculate_hashrate(uptime_positive, f)
    /\ lastPath' = "status"
    /\ lastResult' = MiningStatus(hashrate').status
    /\ UNCHANGED <<fixedVars, mgrVars, config, is_mining, start_time, accepted_shares,
                   rejected_shares, pool_connection, job_data, threads, apiPc>>

\* the snapshot of the handler of lines 316-327
ErrorStatus ==
    [status |-> "error", hashrate |-> 0, threads_active |-> 0,
     accepted_shares |-> 0, rejected_shares |-> 0, difficulty |-> 0]

\* the handler of lines 316-327 left out: the exception leaves get_status
StatusErrorPropagates(uptime_positive, f) ==
    /\ program = "server.py"
    /\ apiPc = "idle"
    /\ is_mining
    /\ hashrate' = calculate_hashrate(uptime_positive, f)
    /\ lastPath' = "status"
    /\ lastResult' = "raised"
    /\ UNCHANGED <<fixedVars, mgrVars, config, is_mining, start_time, accepted_shares,
                   rejected_shares, pool_connection, job_data, threads, apiPc>>

\* get_status while mining when a statement of lines 301-314 raises (psutil,
\* the uptime arithmetic, the model validation): line 299 has run, the handler
\* of lines 316-327 returns the error snapshot
StatusError(uptime_positive, f) ==
    /\ program = "server.py"
    /\ apiPc = "idle"
    /\ is_mining
    /\ hashrate' = calculate_hashrate(uptime_positive, f)
    /\ lastPath' = "status"
    /\ lastResult' = ErrorStatus.status
    /\ UNCHANGED <<fixedVars, mgrVars, config, is_mining, start_time, accepted_shares,
                   rejected_shares, pool_connection, job_data, threads, apiPc>>

\* ---------------------------------------------------------------------
\* main.py: MoneroMiningManager
\* ---------------------------------------------------------------------

minerOnly == <<is_mining, hashrate, accepted_shares, rejected_shares,
               pool_connection, job_data, threads>>

\* self.process and self.process.poll() is None
ProcessAlive == process = "alive"

\* the xmrig process ends by itself, or after terminate() or kill() reached it
ProcessExits ==
    /\ program = "main.py"
    /\ process = "alive"
    /\ process' = "exited"
    /\ UNCHANGED <<fixedVars, minerOnly, config, start_time, throttle_active, throttlers, apiVars>>

\* cpu_throttle_worker, one pass of the loop (lines 156-174).  Popen has no
\* suspend() or resume(): when the sampled usage exceeds the target and the
\* process is alive the call of line 165 raises and the handler sleeps 5 s;
\* otherwise the pass sleeps 10-30 s.  No field is written.
ThrottlePass(over_target) ==
    /\ program = "main.py"
    /\ throttlers > 0
    /\ throttle_active /\ process # "None"
    /\ UNCHANGED vars

\* line 156 with the condition false: the thread ends
ThrottleExit ==
    /\ program = "main.py"
    /\ throttlers > 0
    /\ ~(throttle_active /\ process # "None")
    /\ throttlers' = throttlers - 1
    /\ UNCHANGED <<fixedVars, minerOnly, config, start_time, process, throttle_active, apiVars>>

\* start_mining lines 179-180: the process is running
MgrStartAlreadyRunning(c) ==
    /\ program = "main.py"
    /\ apiPc = "idle"
    /\ ProcessAlive
    /\ lastPath' = "start:already_running"
    /\ lastResult' = "False"
    /\ UNCHANGED <<fixedVars, minerOnly, config, start_time, mgrVars, apiPc>>

\* start_mining lines 179-198 when save_config or Popen raises (the config
\* file cannot be written, xmrig is not installed)
MgrStartLaunchFailed(c) ==
    /\ program = "main.py"
    /\ apiPc = "idle"
    /\ ~ProcessAlive
    /\ config' = Some(c)
    /\ lastPath' = "start:launch_failed"
    /\ lastResult' = "False"
    /\ UNCHANGED <<fixedVars, minerOnly, start_time, mgrVars, apiPc>>

\* start_mining lines 179-212 when the process is launched; thread_raised:
\* Thread.start() of line 206 raises
MgrStartSpawn(c, thread_raised) ==
    /\ program = "main.py"
    /\ apiPc = "idle"
    /\ ~ProcessAlive
    /\ throttlers < MaxThreads
    /\ config' = Some(c)
    /\ process' = "alive"
    /\ start_time' = Some("now")
    /\ throttle_active' = TRUE
    /\ throttlers' = IF thread_raised THEN throttlers ELSE throttlers + 1
    /\ IF thread_raised
       THEN lastPath' = "start:spawn_raised" /\ lastResult' = "False"
       ELSE lastPath' = "start:started" /\ lastResult' = "True"
    /\ UNCHANGED <<fixedVars, minerOnly, apiPc>>

\* stop_mining lines 217-225 when no process is running
MgrStopNoWait ==
    /\ program = "main.py"
    /\ apiPc = "idle"
    /\ ~ProcessAlive
    /\ throttle_active' = FALSE
    /\ process' = "None"
    /\ start_time' = Nothing
    /\ lastPath' = "stop:not_running"
    /\ lastResult' = "True"
    /\ UNCHANGED <<fixedVars, minerOnly, config, throttlers, apiPc>>

\* stop_mining lines 217-225: terminate(), and the process ends within the
\* 10 s of wait()
MgrStopExited ==
    /\ program = "main.py"
    /\ apiPc = "idle"
    /\ ProcessAlive
    /\ throttle_active' = FALSE
    /\ process' = "None"
    /\ start_time' = Nothing
    /\ lastPath' = "stop:running"
    /\ lastResult' = "True"
    /\ UNCHANGED <<fixedVars, minerOnly, config, throttlers, apiPc>>

\* stop_mining lines 217-221 and 227-231: wait(timeout=10) raises
\* TimeoutExpired; the handler kills the process and returns False, and the
\* fields of lines 223-224 are not reset
MgrStopWaitTimeout ==
    /\ program = "main.py"
    /\ apiPc = "idle"
    /\ ProcessAlive
    /\ throttle_active' = FALSE
    /\ lastPath' = "stop:wait_timeout"
    /\ lastResult' = "False"
    /\ UNCHANGED <<fixedVars, minerOnly, config, start_time, process, throttlers, apiPc>>

\* start_mining(config) of main.py, the whole call
mgr_start_mining(c, thread_raised) ==
    \/ MgrStartAlreadyRunning(c) /\ ~thread_raised
    \/ MgrStartLaunchFailed(c) /\ ~thread_raised
    \/ MgrStartSpawn(c, thread_raised)

\* the snapshot of MoneroMiningManager.get_status (lines 235-268)
MgrMiningStatus ==
    IF ~ProcessAlive
    THEN [status |-> "stopped", threads_active |-> 0]
    ELSE [status |-> "running",
          threads_active |-> IF config # Nothing THEN config[1].cpu_cores_num ELSE 0]

\* get_status of main.py, the whole call
MgrStatus ==
    /\ program = "main.py"
    /\ apiPc = "idle"
    /\ lastPath' = "status"
    /\ lastResult' = MgrMiningStatus.status
    /\ UNCHANGED <<fixedVars, minerOnly, config, start_time, mgrVars, apiPc>>

\* get_status of main.py when a statement of lines 246-268 raises: the
\* handler of lines 270-278 returns the error snapshot
MgrStatusError ==
    /\ program = "main.py"
    /\ apiPc = "idle"
    /\ ProcessAlive
    /\ lastPath' = "status"
    /\ lastResult' = "error"
    /\ UNCHANGED <<fixedVars, minerOnly, config, start_time, mgrVars, apiPc>>

\* ---------------------------------------------------------------------
\* the CPU pacing of both programs, one pass
\* ---------------------------------------------------------------------

\* subprocess.Popen (main.py line 191) offers poll, wait, communicate,
\* send_signal, terminate and kill; suspend and resume are methods of
\* psutil.Popen only
PopenHasSuspend == FALSE

\* main.py lines 162-167: how long the pass holds the xmrig process suspended.
\* The sleep of line 166 is 0.1 * (usage - target) / 40 s; it is reached only
\* if the suspend() of line 165 returns, and with a subprocess.Popen it raises
\* AttributeError, so the handler of lines 172-174 runs and nothing is
\* suspended.
MgrPauseOf(target, usage) ==
    IF usage > target /\ ProcessAlive
    THEN IF PopenHasSuspend THEN ((usage - target) * 100000) \div 40 ELSE 0
    ELSE 0

\* server.py lines 200-202: the worker's own pause
ServerPauseOf(target, usage) == IF usage > target THEN ServerPause ELSE 0

\* one pass of cpu_throttle_worker (main.py lines 156-174) with the target and
\* the sample it drew
MgrPace(target, usage) ==
    /\ program = "main.py"
    /\ throttlers > 0
    /\ throttle_active /\ process # "None"
    /\ pause = Nothing
    /\ target_usage' = Some(target)
    /\ current_usage' = Some(usage)
    /\ pause' = Some(MgrPauseOf(target, usage))
    /\ UNCHANGED <<program, current_difficulty, hash_result, decision,
                   serverVars, mgrVars, apiVars>>

\* the pacing at the end of one worker iteration (server.py lines 199-202)
ServerPace(target, usage) ==
    /\ program = "server.py"
    /\ is_mining
    /\ \E w \in DOMAIN threads : w.pc = "loop"
    /\ pause = Nothing
    /\ target_usage' = Some(target)
    /\ current_usage' = Some(usage)
    /\ pause' = Some(ServerPauseOf(target, usage))
    /\ UNCHANGED <<program, current_difficulty, hash_result, decision,
                   serverVars, mgrVars, apiVars>>

\* ---------------------------------------------------------------------
\* the /start route of both programs
\* ---------------------------------------------------------------------

\* the MiningConfig bodies a client can post: the worker count may be zero or
\* above psutil.cpu_count(), which is MaxCores.  The routes validate
\* wallet_address (and cpu_ram in main.py) in the same way; the model's
\* requests carry the worker count only.
Requests == [cpu_cores_num : 0..(MaxCores + 1)]

\* line 350 without its first test: a worker count of zero passes
ValidCoresNoLowerBound(c) == ~(c.cpu_cores_num > MaxCores)

\* the validation of line 350 (server.py) and line 296 (main.py)
ValidCores(c) == ~(c.cpu_cores_num < 1 \/ c.cpu_cores_num > MaxCores)

\* the route raises HTTPException(400) before it calls start_mining
StartRejected(c) ==
    /\ apiPc = "idle"
    /\ lastPath' = "start:invalid_config"
    /\ lastResult' = "HTTP 400"
    /\ UNCHANGED <<fixedVars, serverVars, mgrVars, apiPc>>

\* the login outcomes of a request: a rejected request reaches no login
RouteLogins(c) == IF ValidCores(c) THEN Logins ELSE {"ok"}

\* the spawn loop of a request: a rejected request reaches no spawn loop
RouteUnstarted(c, login) == IF ValidCores(c) THEN Unstarted(c, login) ELSE {0}

\* POST /start of server.py (lines 345-380); a rejected request reaches
\* neither the login nor the spawn loop
start_route(c, login, unstarted) ==
    IF ValidCores(c)
    THEN start_mining(c, login, unstarted)
    ELSE program = "server.py" /\ StartRejected(c) /\ login = "ok" /\ unstarted = 0

\* POST /start of main.py (lines 291-327)
mgr_start_route(c, thread_raised) ==
    IF ValidCores(c)
    THEN mgr_start_mining(c, thread_raised)
    ELSE program = "main.py" /\ StartRejected(c) /\ ~thread_raised

\* ---------------------------------------------------------------------
\* the system
\* ---------------------------------------------------------------------

\* the fields after __init__ (server.py lines 46-56, main.py lines 43-50)
FreshMiner ==
    /\ config = Nothing
    /\ is_mining = FALSE
    /\ start_time = Nothing
    /\ hashrate = 0
    /\ accepted_shares = 0
    /\ rejected_shares = 0
    /\ pool_connection = "None"
    /\ job_data = Nothing
    /\ threads = EmptyBag
    /\ process = "None"
    /\ throttle_active = FALSE
    /\ throttlers = 0
    /\ apiPc = "idle"
    /\ lastPath = "none"
    /\ lastResult = "none"

Init ==
    /\ program \in {"server.py", "main.py"}
    /\ FreshMiner
    /\ current_difficulty = InitialDifficulty
    /\ hash_result = <<>>
    /\ decision = "none"
    /\ target_usage = Nothing /\ current_usage = Nothing /\ pause = Nothing

\* some worker thread takes its next step
InitStep == \E w \in DOMAIN threads, ok \in BOOLEAN : WorkerInit(w, ok)

ExitStep == \E w \in DOMAIN threads : WorkerExit(w)

IterationStep == \E w \in DOMAIN threads, out \in IterationOutcomes : WorkerIteration(w, out)

SubmitNoConnectionStep == \E w \in DOMAIN threads : WorkerSubmitNoConnection(w)

SubmitStep == \E w \in DOMAIN threads, sent \in BOOLEAN : WorkerSubmit(w, sent)

RecvStep == \E w \in DOMAIN threads, resp \in Responses : WorkerRecv(w, resp)

ReadAcceptedStep == \E w \in DOMAIN threads : WorkerReadAccepted(w)

WriteAcceptedStep == \E w \in DOMAIN threads : WorkerWriteAccepted(w)

ReadRejectedStep == \E w \in DOMAIN threads : WorkerReadRejected(w)

WriteRejectedStep == \E w \in DOMAIN threads : WorkerWriteRejected(w)

ThrottlePassStep == \E over_target \in BOOLEAN : ThrottlePass(over_target)

StartCall == \E c \in Requests : \E login \in RouteLogins(c) :
                 \E unstarted \in RouteUnstarted(c, login) : start_route(c, login, unstarted)

StatusCall ==
    \/ StatusStopped
    \/ \E up \in BOOLEAN, f \in Variation : StatusRunning(up, f)
    \/ \E up \in BOOLEAN, f \in Variation : StatusError(up, f)

MgrStartCall == \E c \in Requests, thread_raised \in BOOLEAN :
                    mgr_start_route(c, thread_raised)

MgrStopCall == MgrStopNoWait \/ MgrStopExited \/ MgrStopWaitTimeout

Next ==
    \/ StartCall
    \/ StopMiningNoWait
    \/ StopMiningBegin
    \/ StopMiningJoined
    \/ StopMiningJoinTimeout
    \/ StatusCall
    \/ InitStep
    \/ ExitStep
    \/ IterationStep
    \/ SubmitNoConnectionStep
    \/ SubmitStep
    \/ RecvStep
    \/ ReadAcceptedStep
    \/ WriteAcceptedStep
    \/ ReadRejectedStep
    \/ WriteRejectedStep
    \/ MgrStartCall
    \/ MgrStopCall
    \/ MgrStatus
    \/ MgrStatusError
    \/ ProcessExits
    \/ ThrottlePassStep
    \/ ThrottleExit

Spec == Init /\ [][Next]_vars

\* Every worker is a started OS thread and each of its steps ends by itself:
\* the hash is a computation, the socket calls are bounded by the timeout of
\* line 66, the sleeps of lines 200-206 by their argument.  So a worker step
\* that stays possible is taken.  A thread entering submit_share takes the
\* branch of line 129 the field gives it at that moment: one step, whichever
\* of the two it is.
WorkerFairness ==
    /\ WF_vars(InitStep)
    /\ WF_vars(ExitStep)
    /\ WF_vars(IterationStep)
    /\ WF_vars(SubmitNoConnectionStep \/ SubmitStep)
    /\ WF_vars(RecvStep)
    /\ WF_vars(ReadAcceptedStep)
    /\ WF_vars(WriteAcceptedStep)
    /\ WF_vars(ReadRejectedStep)
    /\ WF_vars(WriteRejectedStep)

\* server.py deployed
InitServer == Init /\ program = "server.py"

\* the lifecycle calls of server.py and its worker threads.  get_status is
\* left out: it assigns self.hashrate only (line 221), which no worker and
\* neither start_mining nor stop_mining reads.
NextLifecycle ==
    \/ StartCall
    \/ StopMiningNoWait
    \/ StopMiningBegin
    \/ StopMiningJoined
    \/ StopMiningJoinTimeout
    \/ InitStep
    \/ ExitStep
    \/ IterationStep
    \/ SubmitNoConnectionStep
    \/ SubmitStep
    \/ RecvStep
    \/ ReadAcceptedStep
    \/ WriteAcceptedStep
    \/ ReadRejectedStep
    \/ WriteRejectedStep

\* Start, Stop and the worker threads, the threads scheduled
SpecFair == InitServer /\ [][NextLifecycle]_vars /\ WorkerFairness

\* byte values that put digests on both sides of the threshold and at it
\* (2**32 // 1000 is 0x00418937: bytes 0, 65, 137, 55)
ByteValues == {0, 54, 55, 65, 137, 255}

\* the digests a hash can give: four leading bytes and one that stands for
\* the rest of the 32
Digests == [1..5 -> ByteValues]

\* the difficulties the check is applied with; the service runs with 1000
Difficulties == {1, 3, 255, InitialDifficulty, 32767}

\* a worker iteration that holds some digest, under some difficulty
InitDifficulty ==
    /\ program = "server.py"
    /\ FreshMiner
    /\ current_difficulty \in Difficulties
    /\ hash_result \in Digests
    /\ decision = "none"
    /\ target_usage = Nothing /\ current_usage = Nothing /\ pause = Nothing

\* the difficulty check applied to every digest and difficulty
SpecDifficulty == InitDifficulty /\ [][DifficultyCheck]_vars

\* the targets random.uniform(50, 90) can give, in whole percent
Targets == TargetLow..TargetHigh

\* psutil.cpu_percent samples: the ends of 0..100 and values around the targets
Samples == {0, 49, 50, 51, 70, 89, 90, 91, 100}

\* a session that runs: server.py with one worker in its loop, main.py with
\* the xmrig process (running, or ended by itself) and its throttle thread
InitPace ==
    /\ program \in {"server.py", "main.py"}
    /\ config = Some([cpu_cores_num |-> 1])
    /\ start_time = Some("now")
    /\ hashrate = 0
    /\ accepted_shares = 0
    /\ rejected_shares = 0
    /\ IF program = "server.py"
       THEN /\ is_mining = TRUE
            /\ pool_connection = "connected"
            /\ job_data = Some("job")
            /\ threads = SetToBag({[NewThread EXCEPT !.pc = "loop"]})
            /\ process = "None"
            /\ throttle_active = FALSE
            /\ throttlers = 0
       ELSE /\ is_mining = FALSE
            /\ pool_connection = "None"
            /\ job_data = Nothing
            /\ threads = EmptyBag
            /\ process \in {"alive", "exited"}
            /\ throttle_active = TRUE
            /\ throttlers = 1
    /\ apiPc = "idle"
    /\ lastPath = "start:started"
    /\ lastResult = "True"
    /\ current_difficulty = InitialDifficulty
    /\ hash_result = <<>>
    /\ decision = "none"
    /\ target_usage = Nothing /\ current_usage = Nothing /\ pause = Nothing

MgrPaceStep == \E target \in Targets, usage \in Samples : MgrPace(target, usage)

ServerPaceStep == \E target \in Targets, usage \in Samples : ServerPace(target, usage)

NextPace == MgrPaceStep \/ ServerPaceStep

\* one pacing pass under every target and sample
SpecPace == InitPace /\ [][NextPace]_vars

SampledIterationStep ==
    \E w \in DOMAIN threads, out \in IterationOutcomes, r \in SampledRates :
        WorkerIterationSampled(w, out, r)

\* The system with the workers' rate samples.  thread_hashrate is read by no
\* other step, so Spec leaves the samples out and is the same system with
\* every thread_hashrate at its initial value.
NextSampled == Next \/ SampledIterationStep

SpecSampled == Init /\ [][NextSampled]_vars

\* ---------------------------------------------------------------------
\* Properties
\* ---------------------------------------------------------------------

\* what Status reports in the current state
ReportedStatus ==
    IF program = "server.py" THEN MiningStatus(hashrate).status ELSE MgrMiningStatus.status

\* C1: a start_mining call made while the session is running returns False and
\* changes nothing: flag, config, start time, threads (or the process and its
\* throttle thread), pool connection and counters keep their values.
C1_StartOnRunningChangesNothing ==
    [][ /\ is_mining =>
              \A c \in Configs : \A login \in Logins :
                \A unstarted \in Unstarted(c, login) :
                  start_mining(c, login, unstarted) =>
                      /\ lastResult' = "False"
                      /\ UNCHANGED <<is_mining, config, start_time, threads, pool_connection,
                                     job_data, accepted_shares, rejected_shares, hashrate>>
        /\ ProcessAlive =>
              \A c \in Configs, thread_raised \in BOOLEAN :
                  mgr_start_mining(c, thread_raised) =>
                      /\ lastResult' = "False"
                      /\ UNCHANGED <<process, config, start_time, throttle_active, throttlers>>
      ]_vars

\* C1 witness: a Start has just been refused on a session whose workers run
C1_Witness ==
    /\ lastPath = "start:already_running"
    /\ lastResult = "False"
    /\ is_mining
    /\ AliveTracked > 0

\* C2: stop_mining on a session that is not running returns True and changes
\* no field, in every reachable not-running state.
C2_StopWhenNotRunningChangesNothing ==
    [][ (program = "server.py" /\ ~is_mining /\ (StopMiningNoWait \/ StopMiningBegin)) =>
            /\ lastResult' = "True"
            /\ UNCHANGED <<is_mining, config, pool_connection, threads, start_time,
                           accepted_shares, rejected_shares>>
      ]_vars

\* C3: a start_mining call from the stopped state that returns False leaves
\* is_mining false and has started no worker thread.
C3_FailedStartLeavesStopped ==
    [][ ~is_mining =>
            \A c \in Configs, login \in LoginOutcomes :
              \A unstarted \in Unstarted(c, login) :
                (start_mining(c, login, unstarted) /\ lastResult' = "False") =>
                    (~is_mining' /\ threads' = threads)
      ]_vars

\* the login exchanges that fail
FailedLogins == LoginOutcomes \ {"ok"}

\* C4: when the login exchange fails, start_mining returns False, starts no
\* thread, leaves is_mining false, and Status still reports "stopped": a step
\* from the stopped state either ends that way or is no start_mining call
\* whose login failed (such a call reaches no spawn loop: unstarted is 0).
C4_FailedLoginStartsNothing ==
    [][ ~is_mining =>
            \/ /\ lastResult' = "False"
               /\ threads' = threads
               /\ ~is_mining'
               /\ ReportedStatus' = "stopped"
            \/ \A c \in Configs, login \in FailedLogins :
                  ~start_mining(c, login, 0)
      ]_vars

\* C4 witness: a Start whose login failed has returned; a socket is left in
\* the field, nothing runs, Status reports "stopped"
C4_Witness ==
    /\ lastPath = "start:connect_failed"
    /\ lastResult = "False"
    /\ pool_connection = "connected"
    /\ ~is_mining
    /\ threads = EmptyBag
    /\ ReportedStatus = "stopped"

\* C5: a start_mining call that returns True leaves running true, a start time,
\* accepted, rejected and hashrate at zero, and exactly cpu_cores_num threads,
\* all of them in mining_threads.
C5_SuccessfulStartResetsSession ==
    [][ \A c \in Configs, login \in LoginOutcomes :
          \A unstarted \in Unstarted(c, login) :
          (start_mining(c, login, unstarted) /\ lastResult' = "True") =>
              /\ is_mining'
              /\ start_time' # Nothing
              /\ accepted_shares' = 0
              /\ rejected_shares' = 0
              /\ hashrate' = 0
              /\ mining_threads_len' = c.cpu_cores_num
              /\ BagCardinality(threads') = BagCardinality(threads) + c.cpu_cores_num
      ]_vars

StopPaths == {"stop:running", "stop:not_running", "stop:join_timeout", "stop:wait_timeout"}

\* C6: every stop_mining call that has returned has returned True and left the
\* session reported as "stopped", also when a worker or the process did not
\* end within the timeout.
C6_StopAlwaysSucceeds ==
    (apiPc = "idle" /\ lastPath \in StopPaths) =>
        (lastResult = "True" /\ ReportedStatus = "stopped")

\* the session is stopped and no API call is under way
Stopped == program = "server.py" /\ apiPc = "idle" /\ ~is_mining

\* C7: once stop_mining has returned, Status reports "stopped" with every
\* counter zero, and until the next Start no worker changes accepted_shares or
\* rejected_shares.
C7_NoCounterUpdateAfterStop ==
    [][ (Stopped /\ Stopped') =>
            /\ MiningStatus(hashrate)' = [status |-> "stopped", hashrate |-> 0,
                                          threads_active |-> 0, accepted_shares |-> 0,
                                          rejected_shares |-> 0, difficulty |-> 0]
            /\ UNCHANGED <<accepted_shares, rejected_shares>>
      ]_vars

\* C8: whenever Status has returned "stopped", every worker thread has left
\* its loop.
C8_StoppedMeansWorkersLeft ==
    (program = "server.py" /\ lastPath = "status" /\ lastResult = "stopped") =>
        \A w \in DOMAIN threads : ~is_alive(w)

\* C9: only threads of the current session (those in mining_threads) pass the
\* loop test and run an iteration.
C9_NoWorkerOutlivesItsSession ==
    [][ \A w \in DOMAIN threads, out \in IterationOutcomes :
          WorkerIteration(w, out) => w.tracked
      ]_vars

\* C10: while a session that started with all W threads runs, Status reports
\* "running" with threads_active = W (main.py: while the process runs).
C10_StatusReportsAllWorkers ==
    /\ (program = "server.py" /\ apiPc = "idle" /\ is_mining
          /\ mining_threads_len = config[1].cpu_cores_num) =>
           /\ MiningStatus(hashrate).status = "running"
           /\ MiningStatus(hashrate).threads_active = config[1].cpu_cores_num
    /\ (program = "main.py" /\ ProcessAlive) =>
           /\ MgrMiningStatus.status = "running"
           /\ MgrMiningStatus.threads_active = config[1].cpu_cores_num

\* the values of MiningStatus.status
StatusValues == {"stopped", "running", "error"}

\* class MiningStatus of server.py: the fields the model keeps, with their types
Snapshots ==
    [status : StatusValues, hashrate : Nat, threads_active : Nat,
     accepted_shares : Nat, rejected_shares : Nat, difficulty : Nat]

\* C11: get_status never lets an exception out and always returns a well-formed
\* snapshot whose status is "stopped", "running" or "error", in every reachable
\* state.
C11_StatusAlwaysAnswers ==
    /\ lastPath = "status" => lastResult \in StatusValues
    /\ program = "server.py" =>
          /\ ErrorStatus \in Snapshots
          /\ \A up \in BOOLEAN, f \in Variation :
                MiningStatus(calculate_hashrate(up, f)) \in Snapshots
    /\ program = "main.py" => MgrMiningStatus.status \in StatusValues

\* C11 witness: a statement of get_status raised while workers were running and
\* the caller received the error snapshot
C11_Witness ==
    /\ lastPath = "status"
    /\ lastResult = "error"
    /\ is_mining
    /\ AliveTracked > 0

\* C12: get_status is a pure read: a status call leaves every field of the miner
\* (the stored hashrate included) unchanged, running or stopped.
C12_StatusIsPureRead ==
    [][ (StatusCall \/ MgrStatus \/ MgrStatusError) => UNCHANGED <<serverVars, mgrVars>> ]_vars

RECURSIVE SumOfRates(_)
\* the sum of thread_hashrate over the Thread objects whose state is in S
SumOfRates(S) ==
    IF S = {} THEN 0
    ELSE LET w == CHOOSE x \in S : TRUE
         IN w.thread_hashrate * threads[w] + SumOfRates(S \ {w})

\* the rates last computed by the live workers of the session, added up
LiveRollingHashrate == SumOfRates({w \in DOMAIN threads : AliveTrackedThread(w)})

\* C13: while running, the hashrate Status reports is the sum of the rolling
\* hashrates last computed by the live workers.
C13_HashrateIsSumOfWorkerRates ==
    [][ \A up \in BOOLEAN, f \in Variation :
          StatusRunning(up, f) => MiningStatus(hashrate').hashrate = LiveRollingHashrate'
      ]_vars

\* the requests whose worker count is outside [1, host core count]
OutOfRange == {c \in Requests : c.cpu_cores_num \notin 1..MaxCores}

\* C14: a Start request whose worker count is outside [1, host core count] is
\* rejected before any side effect: no connection, no stored config, no worker
\* or process, session state unchanged.
C14_InvalidStartChangesNothing ==
    [][ /\ \A c \in OutOfRange : \A login \in RouteLogins(c) :
             \A unstarted \in RouteUnstarted(c, login) :
               start_route(c, login, unstarted) =>
                   /\ lastResult' = "HTTP 400"
                   /\ UNCHANGED <<serverVars, mgrVars>>
        /\ \A c \in OutOfRange, thread_raised \in BOOLEAN :
             mgr_start_route(c, thread_raised) =>
                 /\ lastResult' = "HTTP 400"
                 /\ UNCHANGED <<serverVars, mgrVars>>
      ]_vars

\* C14 witness: an out-of-range request has been rejected on a stopped miner
\* that has never stored a config
C14_Witness ==
    /\ lastPath = "start:invalid_config"
    /\ lastResult = "HTTP 400"
    /\ config = Nothing
    /\ ~is_mining
    /\ pool_connection = "None"

\* C15: no failure ends a worker: a live worker thread returns from
\* mine_worker_thread only in a step that finds is_mining false.
C15_WorkerEndsOnlyOnCancel ==
    [][ \A w \in DOMAIN threads :
          (is_alive(w) /\ threads' = Ended(w)) => ~is_mining
      ]_vars

\* the positions from which a thread returns from submit_share to its loop
SubmitReturns == {"submit", "recv", "wr_acc", "wr_rej"}

\* C16: every submit_share call counts exactly once: the step in which a call
\* returns to the worker loop raises accepted_shares or rejected_shares by
\* exactly one and leaves the other counter alone.
C16_SubmitCountsExactlyOnce ==
    [][ \A w \in DOMAIN threads :
          (w.pc \in SubmitReturns /\ threads' = SetPc(w, "loop")) =>
              \/ accepted_shares' = accepted_shares + 1 /\ UNCHANGED rejected_shares
              \/ rejected_shares' = rejected_shares + 1 /\ UNCHANGED accepted_shares
      ]_vars

\* C17: the increments of the shared counters are atomic: the store that ends
\* an increment leaves the counter exactly one above its value just before the
\* store, however the workers interleave (no increment is lost).
C17_IncrementsAreAtomic ==
    [][ \A w \in DOMAIN threads :
          /\ WorkerWriteAccepted(w) => accepted_shares' = accepted_shares + 1
          /\ WorkerWriteRejected(w) => rejected_shares' = rejected_shares + 1
      ]_vars

\* the threads that have sent a submit request on the shared socket and have
\* not read a response yet
Outstanding == {w \in DOMAIN threads : w.pc = "recv"}

\* the "id" field of the request thread w has sent (line 133)
request_id(w) == SubmitRequestId

\* C18: the exchanges on the shared pool connection are serialised and told
\* apart: at most one worker has a request outstanding, and the requests
\* outstanding carry ids that differ from each other.
C18_PoolExchangesSerialised ==
    /\ Count(Outstanding) <= 1
    /\ Cardinality({request_id(w) : w \in Outstanding}) = Count(Outstanding)

\* n + 1 for a number of two limbs
Succ(n) ==
    IF n[2] + 1 < Limb THEN <<0, n[1], n[2] + 1>>
    ELSE IF n[1] + 1 < Limb THEN <<0, n[1] + 1, 0>>
    ELSE <<1, 0, 0>>

\* n * d for a number of three limbs, by limb-wise multiplication with carry
Times(n, d) ==
    LET p3 == n[3] * d
        p2 == n[2] * d + (p3 \div Limb)
        p1 == n[1] * d + (p2 \div Limb)
    IN <<p1 \div Limb, p1 % Limb, p2 % Limb, p3 % Limb>>

\* the first four bytes of the digest read as a big-endian unsigned number
PrefixValue == <<hash_result[1] * 256 + hash_result[2], hash_result[3] * 256 + hash_result[4]>>

\* C19: a share is submitted if and only if the first four digest bytes, read
\* as a big-endian unsigned 32-bit number v, are strictly below
\* floor(2^32 / difficulty), that is (v + 1) * difficulty <= 2^32; digest and
\* difficulty alone determine the decision.
C19_DifficultyCheckIsThreshold ==
    decision # "none" =>
        (decision = "submit" <=>
            ~Less(TwoTo32, Times(Succ(PrefixValue), current_difficulty)))

\* C19 witness: with difficulty 1000 the digest one below the threshold
\* 0x00418937 has been accepted for submission
C19_Witness ==
    /\ decision = "submit"
    /\ current_difficulty = 1000
    /\ FirstFour(hash_result) = <<0, 65, 137, 54>>

\* C20: every target drawn is within [50, 90] percent; the pause of a pass is
\* never negative and never above the largest value of the formula (0.125 s);
\* it is zero when the sampled utilisation does not exceed the target, and
\* otherwise 0.1 * (usage - target) / 40 s in main.py and 0.01 s in server.py.
C20_PacingPauseWithinBounds ==
    pause # Nothing =>
        /\ target_usage[1] >= 50 /\ target_usage[1] <= 90
        /\ pause[1] >= 0 /\ pause[1] <= 125000
        /\ current_usage[1] <= target_usage[1] => pause[1] = 0
        /\ current_usage[1] > target_usage[1] =>
              pause[1] = IF program = "main.py"
                         THEN 2500 * (current_usage[1] - target_usage[1])
                         ELSE 10000

\* no Thread object is running mine_worker_thread
NoWorkerAlive == \A w \in DOMAIN threads : ~is_alive(w)

\* C21: once is_mining has been cleared and no later Start sets it again,
\* every worker thread comes to the loop test of line 172 (or ends before
\* it) and terminates: from some point on no worker is alive.
C21_CancellationEventuallyEffective == <>[](~is_mining) => <>[]NoWorkerAlive

\* C21 witness: stop_mining has cleared the flag and waits in its join loop,
\* and every worker it waits for has ended
C21_Witness ==
    /\ apiPc = "stop_join"
    /\ ~is_mining
    /\ threads # EmptyBag
    /\ NoWorkerAlive

\* C22: in server.py, whenever the session is stopped and no API call is
\* under way, pool_connection is None: no socket is kept after a failed
\* Start or after Stop.
C22_NoSocketWhenStopped ==
    (program = "server.py" /\ ~is_mining /\ apiPc = "idle") => pool_connection = "None"

\* C23: in main.py at most one thread runs cpu_throttle_worker at any time:
\* the throttle thread of one Start has ended before a later Start adds its
\* own, so no thread of an earlier session acts on a later process.
C23_AtMostOneThrottleThread == program = "main.py" => throttlers <= 1

\* the pass has gone through the call of line 165: the sample exceeded the
\* target and the process was alive (lines 162-164)
SuspendCalled ==
    /\ program = "main.py"
    /\ pause # Nothing
    /\ current_usage[1] > target_usage[1]
    /\ ProcessAlive

\* the pass has gone through the call of line 167: it follows the sleep of
\* line 166, which held the process back for a positive time
ResumeCalled == SuspendCalled /\ pause[1] > 0

====
